---- MODULE Spec2Model ----
(***************************************************************************)
(* km-checker: the round-driven Runner (src/src/runner.rs) and the         *)
(* equivalence wrappers of the abstract state (src/src/state.rs).          *)
(*                                                                         *)
(* Spec      : the Runner driven by arbitrary step() calls against an      *)
(*             arbitrary Commander and Test Port.                          *)
(* SpecMatch : the matches functions of the wrappers applied to every      *)
(*             pair of bounded raw contents.                               *)
(***************************************************************************)
EXTENDS Integers, Sequences, FiniteSets, TLC

\* ------------------------------------------------------------------ bounds
\* longest task list of an abstract state of the Runner
MaxLen == 1
\* largest identifier / next_task value of an abstract state of the Runner
MaxId == 1
\* the Command phase is not entered once the round counter reached MaxRound
MaxRound == 2
\* largest return code the Test Port reports
MaxRetv == 1
\* longest raw content handed to a wrapper's matches
MaxSeqLen == 3
\* largest raw value inside a wrapper
MaxVal == 2
\* the scripted run issues no command once the round counter reached MaxRunRound
MaxRunRound == 40

VARIABLES
    state,      \* Runner.state: the local abstract state
    round,      \* Runner.round
    step,       \* Runner.step: the phase marker
    retv,       \* Runner.retv: return value of the last command
    printed,    \* lines the Printer received during the last step() call
    result,     \* what the last step() call returned ("none" before any call)
    call,       \* the last step() call: its phase, arguments, collaborators' answers
    issued,     \* number of commands obtained from the Commander and executed locally
    since_sync, \* history kept by SpecSync: commands executed locally / forwarded
                \* since the local state was last replaced
    remote,     \* FakeTestPort.0: the state of the scripted run's test target
    script,     \* RoundIn.0: the position of the scripted Commander
    a, b,       \* raw contents of the two wrappers handed to matches
    res         \* the last matches call: wrapper kind and value returned

vars == <<state, round, step, retv, printed, result, call, issued, since_sync,
          remote, script, a, b, res>>

\* ------------------------------------------------------------ helpers
RECURSIVE SeqsUpTo(_, _)
SeqsUpTo(S, n) ==
    IF n = 0 THEN {<<>>}
    ELSE LET shorter == SeqsUpTo(S, n - 1)
         IN shorter \cup {Append(s, x) : s \in {t \in shorter : Len(t) = n - 1}, x \in S}

\* Vec::sort on a Vec<usize>: the ascending arrangement of the same elements
sort(s) == SortSeq(s, LAMBDA x, y : x < y)

\* ------------------------------------------------- state.rs: the wrappers
\* Unmatched<T>::matches
UnmatchedMatches(x, y) == TRUE

\* Value<T>::matches
ValueMatches(x, y) == x = y

\* Ident<T>::matches
IdentMatches(x, y) == TRUE

\* variant of ValueListMatches: no length test, zip stops at the shorter vector
ValueListMatches_zip(x, y) ==
    \A i \in 1..(IF Len(x) < Len(y) THEN Len(x) ELSE Len(y)) : ValueMatches(x[i], y[i])

\* ValueList<T>::matches
ValueListMatches(x, y) ==
    IF Len(x) # Len(y) THEN FALSE
    ELSE \A i \in 1..Len(x) : ValueMatches(x[i], y[i])

\* variant of ValueSetMatches: all instead of the outer any
ValueSetMatches_all(x, y) ==
    IF Len(x) # Len(y) THEN FALSE
    ELSE \A i \in 1..Len(x) : \E j \in 1..Len(y) : ValueMatches(x[i], y[j])

\* variant of ValueSetMatches: the values compared with their multiplicities
ValueSetMatches_counted(x, y) ==
    IF Len(x) # Len(y) THEN FALSE
    ELSE \A i \in 1..Len(x) :
            Cardinality({k \in 1..Len(x) : x[k] = x[i]})
                = Cardinality({k \in 1..Len(y) : y[k] = x[i]})

\* ValueSet<T>::matches
ValueSetMatches(x, y) ==
    IF Len(x) # Len(y) THEN FALSE
    ELSE \E i \in 1..Len(x) : \E j \in 1..Len(y) : ValueMatches(x[i], y[j])

\* the HashMap map_ident builds: each distinct value of list[1..n] mapped to
\* the size the map had when the value was first met
RECURSIVE ident_map(_, _)
ident_map(list, n) ==
    IF n = 0 THEN <<>>
    ELSE LET map == ident_map(list, n - 1)
         IN IF \E k \in 1..Len(map) : map[k] = list[n]
            THEN map
            ELSE Append(map, list[n])

\* variant of map_ident: a new value is labelled with the size of the map
\* after its insertion
map_ident_from_one(list) ==
    LET map == ident_map(list, Len(list))
    IN [i \in 1..Len(list) |-> CHOOSE k \in 1..Len(map) : map[k] = list[i]]

\* variant of map_ident: labels by rank of the value instead of first appearance
map_ident_by_value(list) ==
    [i \in 1..Len(list) |->
        Cardinality({list[k] : k \in {m \in 1..Len(list) : list[m] < list[i]}})]

\* map_ident: map is kept as the sequence of keys in insertion order, the
\* value of key map[k] being k - 1
map_ident(list) ==
    LET map == ident_map(list, Len(list))
    IN [i \in 1..Len(list) |-> (CHOOSE k \in 1..Len(map) : map[k] = list[i]) - 1]

\* IdentList<T>::matches
IdentListMatches(x, y) ==
    IF Len(x) # Len(y) THEN FALSE
    ELSE map_ident(x) = map_ident(y)

\* IdentSet<T>::matches
IdentSetMatches(x, y) ==
    IF Len(x) # Len(y) THEN FALSE
    ELSE sort(map_ident(x)) = sort(map_ident(y))

\* ------------------------------------------- lib.rs: the example state
Idents == 0..MaxId

\* EasyState { tasks: IdentList<usize>, control: Ignored<EasyControlInfo> }
EasyState == [tasks : SeqsUpTo(Idents, MaxLen), next_task : 0..MaxId]

\* the states TestPort::get_state delivers: a state read from the target is
\* deserialized, and an Unmatched field deserializes to T::default()
RemoteState == {s \in EasyState : s.next_task = 0}

\* the derived EasyState::matches: the conjunction of the fields' matches
EasyStateMatches(s, other) ==
    /\ IdentListMatches(s.tasks, other.tasks)
    /\ UnmatchedMatches(s.next_task, other.next_task)

\* AbstractState::update: self becomes a copy of other
update(s, other) == other

Commands == {"spawn", "sched", "exit"}

\* Command::execute of Spawn, Sched and Exit: the state after the command
execute(command, s) ==
    CASE command = "spawn" ->
            [tasks |-> Append(s.tasks, s.next_task), next_task |-> s.next_task + 1]
      [] command = "sched" ->
            [s EXCEPT !.tasks = Append(Tail(s.tasks), Head(s.tasks))]
      [] command = "exit" ->
            [s EXCEPT !.tasks = SubSeq(s.tasks, 1, Len(s.tasks) - 1)]

\* the return code of execute: Ok(()) is code 0
execute_retv(command, s) == 0

\* the commands the Commander hands out in state s: spawn stays within
\* MaxLen and MaxId, and sched is not issued on an empty task list, where
\* tasks.0[0] panics and ends the program
Issuable(s) ==
    {c \in Commands :
        /\ c = "spawn" => (Len(s.tasks) < MaxLen /\ s.next_task < MaxId)
        /\ c = "sched" => Len(s.tasks) > 0}

\* ------------------------------------------------- runner.rs: the Runner
CheckLevel == {"None", "Relaxed", "Strict"}
ExecutionStep == {"Init", "Command", "Check"}
Retvs == 0..MaxRetv

\* one line handed to Printer::print: its fixed text and the values formatted into it
Line(text, args) == [text |-> text, args |-> args]

\* an answer of TestPort::get_state
StateOk(s) == [called |-> TRUE, ok |-> TRUE, val |-> s]
StateErr == [called |-> TRUE, ok |-> FALSE, val |-> [tasks |-> <<>>, next_task |-> 0]]
NotCalled == [called |-> FALSE, ok |-> FALSE, val |-> [tasks |-> <<>>, next_task |-> 0]]
StateAnswers == {StateOk(s) : s \in RemoteState} \cup {StateErr}

NoCall ==
    [phase |-> "none", retv_level |-> "None", state_level |-> "None",
     command |-> "none", sent |-> FALSE, test_retv |-> 0, get_state |-> NotCalled]

\* variant of init: the banner is printed before the state is requested
init_banner_first(got) ==
    IF ~got.ok
    THEN [result |-> "StateParseError", state |-> state,
          printed |-> <<Line("[ Initial State ]", <<>>)>>]
    ELSE LET s == update(state, got.val)
         IN [result |-> "Ok", state |-> s,
             printed |-> <<Line("[ Initial State ]", <<>>), Line("{:?}", <<s>>)>>]

\* Runner::init with the Test Port answering got
init(got) ==
    IF ~got.ok
    THEN [result |-> "StateParseError", state |-> state, printed |-> <<>>]
    ELSE LET s == update(state, got.val)
         IN [result |-> "Ok", state |-> s,
             printed |-> <<Line("[ Initial State ]", <<>>), Line("{:?}", <<s>>)>>]

\* Runner::command with the Commander answering cmd ("none": it failed) and
\* send_command answering sendOk
command(cmd, sendOk) ==
    LET banner == <<Line("[ Round {} ]", <<round>>)>>
    IN IF cmd = "none"
       THEN [result |-> "CommandNotFound", round |-> round + 1, state |-> state,
             retv |-> retv, printed |-> banner, executed |-> FALSE, sent |-> FALSE]
       ELSE [result |-> IF sendOk THEN "Ok" ELSE "SendError",
             round |-> round + 1,
             state |-> execute(cmd, state),
             retv |-> execute_retv(cmd, state),
             printed |-> banner \o <<Line("Command: {:?}", <<cmd>>)>>,
             executed |-> TRUE, sent |-> sendOk]

\* the two report blocks of Runner::check
RetvReport(test_retv) ==
    <<Line("Return value mismatch", <<>>),
      Line("Expected: {}, Got: {}", <<retv, test_retv>>)>>

StateReport(test_state) ==
    <<Line("State mismatch", <<>>),
      Line("Expected:", <<>>), Line("{:?}", <<test_state>>),
      Line("Got:", <<>>), Line("{:?}", <<state>>)>>

\* the condition of the first if of Runner::check
retv_mismatch(retv_level, test_retv) == retv_level # "None" /\ test_retv # retv

\* the condition of the second if of Runner::check
state_mismatch(state_level, test_state) ==
    state_level # "None" /\ ~EasyStateMatches(test_state, state)

\* variant of is_fatal: every reported mismatch is an error
is_fatal_relaxed(level) == level # "None"

\* the inner if of both report blocks: a reported mismatch is returned as an error
is_fatal(level) == level = "Strict"

\* variant of check: the resync copies the compared field only (a merge)
check_merge(retv_level, state_level, test_retv, got) ==
    LET retv_bad == retv_mismatch(retv_level, test_retv)
        p1 == IF retv_bad THEN RetvReport(test_retv) ELSE <<>>
    IN IF retv_bad /\ is_fatal(retv_level)
       THEN [result |-> "ReturnValueMismatch", state |-> state, printed |-> p1,
             get_state |-> NotCalled]
       ELSE IF ~got.ok
       THEN [result |-> "StateParseError", state |-> state, printed |-> p1,
             get_state |-> got]
       ELSE LET state_bad == state_mismatch(state_level, got.val)
                p2 == IF state_bad THEN p1 \o StateReport(got.val) ELSE p1
            IN IF state_bad /\ is_fatal(state_level)
               THEN [result |-> "StateMismatch", state |-> state, printed |-> p2,
                     get_state |-> got]
               ELSE [result |-> "Ok", state |-> [state EXCEPT !.tasks = got.val.tasks],
                     printed |-> p2, get_state |-> got]

\* variant of check: on a Strict state mismatch the compared field is
\* already copied when the error is returned
check_torn(retv_level, state_level, test_retv, got) ==
    LET retv_bad == retv_mismatch(retv_level, test_retv)
        p1 == IF retv_bad THEN RetvReport(test_retv) ELSE <<>>
    IN IF retv_bad /\ is_fatal(retv_level)
       THEN [result |-> "ReturnValueMismatch", state |-> state, printed |-> p1,
             get_state |-> NotCalled]
       ELSE IF ~got.ok
       THEN [result |-> "StateParseError", state |-> state, printed |-> p1,
             get_state |-> got]
       ELSE LET state_bad == state_mismatch(state_level, got.val)
                p2 == IF state_bad THEN p1 \o StateReport(got.val) ELSE p1
            IN IF state_bad /\ is_fatal(state_level)
               THEN [result |-> "StateMismatch",
                     state |-> [state EXCEPT !.tasks = got.val.tasks],
                     printed |-> p2, get_state |-> got]
               ELSE [result |-> "Ok", state |-> update(state, got.val),
                     printed |-> p2, get_state |-> got]

\* variant of check: the state is requested before the return code is compared
check_state_first(retv_level, state_level, test_retv, got) ==
    LET retv_bad == retv_mismatch(retv_level, test_retv)
        p1 == IF retv_bad THEN RetvReport(test_retv) ELSE <<>>
    IN IF ~got.ok
       THEN [result |-> "StateParseError", state |-> state, printed |-> <<>>,
             get_state |-> got]
       ELSE IF retv_bad /\ is_fatal(retv_level)
       THEN [result |-> "ReturnValueMismatch", state |-> state, printed |-> p1,
             get_state |-> got]
       ELSE LET state_bad == state_mismatch(state_level, got.val)
                p2 == IF state_bad THEN p1 \o StateReport(got.val) ELSE p1
            IN IF state_bad /\ is_fatal(state_level)
               THEN [result |-> "StateMismatch", state |-> state, printed |-> p2,
                     get_state |-> got]
               ELSE [result |-> "Ok", state |-> update(state, got.val),
                     printed |-> p2, get_state |-> got]

\* Runner::check with get_retv answering test_retv and get_state answering got;
\* get_state is not called when the return code check already failed
check(retv_level, state_level, test_retv, got) ==
    LET retv_bad == retv_mismatch(retv_level, test_retv)
        p1 == IF retv_bad THEN RetvReport(test_retv) ELSE <<>>
    IN IF retv_bad /\ is_fatal(retv_level)
       THEN [result |-> "ReturnValueMismatch", state |-> state, printed |-> p1,
             get_state |-> NotCalled]
       ELSE IF ~got.ok
       THEN [result |-> "StateParseError", state |-> state, printed |-> p1,
             get_state |-> got]
       ELSE LET state_bad == state_mismatch(state_level, got.val)
                p2 == IF state_bad THEN p1 \o StateReport(got.val) ELSE p1
            IN IF state_bad /\ is_fatal(state_level)
               THEN [result |-> "StateMismatch", state |-> state, printed |-> p2,
                     get_state |-> got]
               ELSE [result |-> "Ok", state |-> update(state, got.val),
                     printed |-> p2, get_state |-> got]

\* variant of next_step: a successful Check goes back to Init
next_step_reinit(from, r) ==
    IF r # "Ok" THEN from
    ELSE CASE from = "Init" -> "Command"
           [] from = "Command" -> "Check"
           [] from = "Check" -> "Init"

\* variant of next_step: the marker advances whatever the arm returned
next_step_always(from, r) ==
    CASE from = "Init" -> "Command"
      [] from = "Command" -> "Check"
      [] from = "Check" -> "Command"

\* Runner::step: the phase marker after an arm that returned r
next_step(from, r) ==
    IF r # "Ok" THEN from
    ELSE CASE from = "Init" -> "Command"
           [] from = "Command" -> "Check"
           [] from = "Check" -> "Command"

\* nothing executed or forwarded since the local state was last replaced
NoneSince == [applied |-> <<>>, forwarded |-> <<>>]

\* since_sync after a Command phase described by c: execute appends the
\* command to applied, a successful send_command to forwarded
Since(c) ==
    [applied |-> IF c.command # "none" THEN Append(since_sync.applied, c.command)
                 ELSE since_sync.applied,
     forwarded |-> IF c.sent THEN Append(since_sync.forwarded, c.command)
                   ELSE since_sync.forwarded]

\* test_runner: the placeholder state of the Runner and the state of the
\* FakeTestPort
state0 == [tasks |-> <<0>>, next_task |-> 1]
state1 == [tasks |-> <<100>>, next_task |-> 101]

\* Runner::new
Init ==
    /\ state \in EasyState
    /\ round = 0
    /\ step = "Init"
    /\ retv = 0
    /\ printed = <<>>
    /\ result = "none"
    /\ call = NoCall
    /\ issued = 0
    /\ since_sync = NoneSince
    /\ remote = state1
    /\ script = 0
    /\ a = <<>>
    /\ b = <<>>
    /\ res = [kind |-> "none", val |-> FALSE]

\* step(retv_level, state_level) in phase Init: the arm does not read the levels
InitArm ==
    /\ step = "Init"
    /\ \E got \in StateAnswers :
        LET r == init(got)
        IN /\ state' = r.state
           /\ printed' = r.printed
           /\ result' = r.result
           /\ step' = next_step(step, r.result)
           /\ call' = [NoCall EXCEPT !.phase = "Init", !.get_state = got]
    /\ UNCHANGED <<round, retv, issued, remote, script, a, b, res>>

StepInit == InitArm /\ UNCHANGED since_sync

\* step(retv_level, state_level) in phase Command: the arm does not read the levels
CommandArm ==
    /\ step = "Command"
    /\ round < MaxRound
    /\ \E cmd \in Issuable(state) \cup {"none"}, sendOk \in BOOLEAN :
        LET r == command(cmd, sendOk)
        IN /\ cmd = "none" => sendOk
           /\ state' = r.state
           /\ round' = r.round
           /\ retv' = r.retv
           /\ printed' = r.printed
           /\ result' = r.result
           /\ step' = next_step(step, r.result)
           /\ issued' = IF r.executed THEN issued + 1 ELSE issued
           /\ call' = [NoCall EXCEPT !.phase = "Command", !.command = cmd,
                                     !.sent = r.sent]
    /\ UNCHANGED <<remote, script, a, b, res>>

StepCommand == CommandArm /\ UNCHANGED since_sync

\* step(retv_level, state_level) in phase Check
CheckArm ==
    /\ step = "Check"
    /\ \E retv_level \in CheckLevel, state_level \in CheckLevel,
          test_retv \in Retvs, got \in StateAnswers :
        LET r == check(retv_level, state_level, test_retv, got)
        IN /\ state' = r.state
           /\ printed' = r.printed
           /\ result' = r.result
           /\ step' = next_step(step, r.result)
           /\ call' = [NoCall EXCEPT !.phase = "Check", !.retv_level = retv_level,
                                     !.state_level = state_level,
                                     !.test_retv = test_retv, !.get_state = r.get_state]
    /\ UNCHANGED <<round, retv, issued, remote, script, a, b, res>>

StepCheck == CheckArm /\ UNCHANGED since_sync

Next == StepInit \/ StepCommand \/ StepCheck

Spec == Init /\ [][Next]_vars

\* -------------------------- the Runner with the history since the last resync
\* self.state.update(..) ran: nothing is pending any more
SyncInit ==
    /\ InitArm
    /\ since_sync' = IF result' = "Ok" THEN NoneSince ELSE since_sync

SyncCommand ==
    /\ CommandArm
    /\ since_sync' = Since(call')

SyncCheck ==
    /\ CheckArm
    /\ since_sync' = IF result' = "Ok" THEN NoneSince ELSE since_sync

NextSync == SyncInit \/ SyncCommand \/ SyncCheck

SpecSync == Init /\ [][NextSync]_vars

\* ------------------------------- lib.rs: test_runner, the scripted run
\* RoundIn::command: ops
Ops == <<"spawn", "sched", "sched", "spawn", "sched", "exit", "sched", "spawn",
         "exit", "exit">>

\* RoundIn::command: ops[self.0 % ops.len()]
ScriptCommand(n) == Ops[(n % Len(Ops)) + 1]

\* the state the FakeTestPort hands over: its own state as it is (receive
\* returns &self.0), or the state read back from its serialized form, whose
\* Unmatched control field is the default (receive's from_str)
Delivered(s) == {StateOk(s), StateOk([s EXCEPT !.next_task = 0])}

InitRun ==
    /\ state = state0
    /\ remote = state1
    /\ script = 0
    /\ round = 0
    /\ step = "Init"
    /\ retv = 0
    /\ printed = <<>>
    /\ result = "none"
    /\ call = NoCall
    /\ issued = 0
    /\ since_sync = NoneSince
    /\ a = <<>>
    /\ b = <<>>
    /\ res = [kind |-> "none", val |-> FALSE]

\* runner.step() in phase Init
RunInit ==
    /\ step = "Init"
    /\ \E got \in Delivered(remote) :
        LET r == init(got)
        IN /\ state' = r.state
           /\ printed' = r.printed
           /\ result' = r.result
           /\ step' = next_step(step, r.result)
           /\ call' = [NoCall EXCEPT !.phase = "Init", !.get_state = got]
    /\ since_sync' = IF result' = "Ok" THEN NoneSince ELSE since_sync
    /\ UNCHANGED <<round, retv, issued, remote, script, a, b, res>>

\* runner.step() in phase Command: RoundIn hands out the next command of the
\* script and FakeTestPort::send executes it on the remote state
RunCommand ==
    /\ step = "Command"
    /\ round < MaxRunRound
    /\ LET cmd == ScriptCommand(script)
           r == command(cmd, TRUE)
       IN /\ state' = r.state
          /\ round' = r.round
          /\ retv' = r.retv
          /\ printed' = r.printed
          /\ result' = r.result
          /\ step' = next_step(step, r.result)
          /\ issued' = IF r.executed THEN issued + 1 ELSE issued
          /\ call' = [NoCall EXCEPT !.phase = "Command", !.command = cmd,
                                    !.sent = r.sent]
          /\ script' = script + 1
          /\ remote' = execute(cmd, remote)
    /\ since_sync' = Since(call')
    /\ UNCHANGED <<a, b, res>>

\* runner.step() in phase Check, both levels Strict: the FakeTestPort
\* reports the return code of the command it executed and its state
RunCheck ==
    /\ step = "Check"
    /\ \E got \in Delivered(remote) :
        LET r == check("Strict", "Strict", execute_retv(call.command, remote), got)
        IN /\ state' = r.state
           /\ printed' = r.printed
           /\ result' = r.result
           /\ step' = next_step(step, r.result)
           /\ call' = [NoCall EXCEPT !.phase = "Check", !.retv_level = "Strict",
                                     !.state_level = "Strict",
                                     !.test_retv = execute_retv(call.command, remote),
                                     !.get_state = r.get_state]
    /\ since_sync' = IF result' = "Ok" THEN NoneSince ELSE since_sync
    /\ UNCHANGED <<round, retv, issued, remote, script, a, b, res>>

NextRun == RunInit \/ RunCommand \/ RunCheck

SpecRun == InitRun /\ [][NextRun]_vars

\* ------------------------------------------ the wrappers' matches, applied
Vals == 0..MaxVal
Raw == SeqsUpTo(Vals, MaxSeqLen)

\* two wrappers of one kind are built from raw contents a and b; a scalar
\* wrapper (Unmatched, Value, Ident) holds the single element of a one-element content
InitMatch ==
    /\ a \in Raw
    /\ b \in Raw
    /\ res = [kind |-> "none", val |-> FALSE]
    /\ state = [tasks |-> <<>>, next_task |-> 0]
    /\ round = 0
    /\ step = "Init"
    /\ retv = 0
    /\ printed = <<>>
    /\ result = "none"
    /\ call = NoCall
    /\ issued = 0
    /\ since_sync = NoneSince
    /\ remote = state1
    /\ script = 0

Scalars == Len(a) = 1 /\ Len(b) = 1

\* Unmatched(a[1]).matches(&Unmatched(b[1]))
MatchUnmatched ==
    /\ Scalars
    /\ res' = [kind |-> "Unmatched", val |-> UnmatchedMatches(a[1], b[1])]
    /\ UNCHANGED <<a, b, state, round, step, retv, printed, result, call, issued,
                   since_sync, remote, script>>

\* Value(a[1]).matches(&Value(b[1]))
MatchValue ==
    /\ Scalars
    /\ res' = [kind |-> "Value", val |-> ValueMatches(a[1], b[1])]
    /\ UNCHANGED <<a, b, state, round, step, retv, printed, result, call, issued,
                   since_sync, remote, script>>

\* Ident(a[1]).matches(&Ident(b[1]))
MatchIdent ==
    /\ Scalars
    /\ res' = [kind |-> "Ident", val |-> IdentMatches(a[1], b[1])]
    /\ UNCHANGED <<a, b, state, round, step, retv, printed, result, call, issued,
                   since_sync, remote, script>>

\* ValueList(a).matches(&ValueList(b))
MatchValueList ==
    /\ res' = [kind |-> "ValueList", val |-> ValueListMatches(a, b)]
    /\ UNCHANGED <<a, b, state, round, step, retv, printed, result, call, issued,
                   since_sync, remote, script>>

\* ValueSet(a).matches(&ValueSet(b))
MatchValueSet ==
    /\ res' = [kind |-> "ValueSet", val |-> ValueSetMatches(a, b)]
    /\ UNCHANGED <<a, b, state, round, step, retv, printed, result, call, issued,
                   since_sync, remote, script>>

\* IdentList(a).matches(&IdentList(b))
MatchIdentList ==
    /\ res' = [kind |-> "IdentList", val |-> IdentListMatches(a, b)]
    /\ UNCHANGED <<a, b, state, round, step, retv, printed, result, call, issued,
                   since_sync, remote, script>>

\* IdentSet(a).matches(&IdentSet(b))
MatchIdentSet ==
    /\ res' = [kind |-> "IdentSet", val |-> IdentSetMatches(a, b)]
    /\ UNCHANGED <<a, b, state, round, step, retv, printed, result, call, issued,
                   since_sync, remote, script>>

\* map_ident(&a), and its comparison with map_ident(&b)
ApplyMapIdent ==
    /\ res' = [kind |-> "map_ident", val |-> (map_ident(a) = map_ident(b)),
               mapped |-> map_ident(a)]
    /\ UNCHANGED <<a, b, state, round, step, retv, printed, result, call, issued,
                   since_sync, remote, script>>

NextMatch ==
    \/ ApplyMapIdent
    \/ MatchUnmatched
    \/ MatchValue
    \/ MatchIdent
    \/ MatchValueList
    \/ MatchValueSet
    \/ MatchIdentList
    \/ MatchIdentSet

SpecMatch == InitMatch /\ [][NextMatch]_vars

\* ================================================== properties of Spec
Has(lines, text) == \E i \in 1..Len(lines) : lines[i].text = text

Failed == result \notin {"none", "Ok"}

\* C1: check-level gating in the Check phase, for the return code and for
\* the state separately.  With level None nothing is reported and the step
\* never fails with that mismatch error; with Relaxed a mismatch is reported
\* and is no error (the step succeeds unless something else fails it); with
\* Strict a mismatch is reported, expected and actual line included, and the
\* step fails with the corresponding mismatch error.
C1_Gating ==
    step = "Check" =>
        LET lr == call'.retv_level
            ls == call'.state_level
            retv_differs == call'.test_retv # retv
            retrieved == call'.get_state.called /\ call'.get_state.ok
            state_differs ==
                retrieved /\ ~EasyStateMatches(call'.get_state.val, state)
            retv_reported ==
                /\ Has(printed', "Return value mismatch")
                /\ Has(printed', "Expected: {}, Got: {}")
            state_reported ==
                /\ Has(printed', "State mismatch")
                /\ Has(printed', "Expected:")
                /\ Has(printed', "Got:")
        IN /\ lr = "None" =>
                /\ ~Has(printed', "Return value mismatch")
                /\ ~Has(printed', "Expected: {}, Got: {}")
                /\ result' # "ReturnValueMismatch"
           /\ (lr = "Relaxed" /\ retv_differs) =>
                retv_reported /\ result' # "ReturnValueMismatch"
           /\ (lr = "Strict" /\ retv_differs) =>
                retv_reported /\ result' = "ReturnValueMismatch"
           /\ ls = "None" =>
                /\ ~Has(printed', "State mismatch")
                /\ ~Has(printed', "Expected:")
                /\ ~Has(printed', "Got:")
                /\ result' # "StateMismatch"
           /\ (ls = "Relaxed" /\ state_differs) =>
                state_reported /\ result' = "Ok"
           /\ (ls = "Strict" /\ state_differs) =>
                state_reported /\ result' = "StateMismatch"
           /\ ( /\ ~(lr = "Strict" /\ retv_differs)
                /\ retrieved
                /\ ~(ls = "Strict" /\ state_differs) ) => result' = "Ok"

C1_CheckLevelGating == [][C1_Gating]_vars

\* a Strict state mismatch: reported with both lines, then returned as the error
C1_Witness ==
    /\ call.phase = "Check"
    /\ call.state_level = "Strict"
    /\ result = "StateMismatch"
    /\ Has(printed, "Expected:")
    /\ Has(printed, "Got:")
    /\ round = 2

\* C2 as stated: every Check phase in which the Test Port's state is
\* retrieved ends with the local state equal to the retrieved state, at
\* every check level and whether or not anything matched.
C2_ResyncAlways ==
    (call.phase = "Check" /\ call.get_state.called /\ call.get_state.ok)
        => state = call.get_state.val

\* C2 amended: a Check phase in which the state is retrieved ends with the
\* local state replaced wholesale by the retrieved state unless the step
\* fails with a state-mismatch error (Strict state level and a mismatch); in
\* that case the local state is left as it was.
C2_ResyncUnlessStrictMismatch ==
    [][(step = "Check" /\ call'.get_state.called /\ call'.get_state.ok) =>
          IF result' = "StateMismatch"
          THEN state' = state
          ELSE result' = "Ok" /\ state' = call'.get_state.val]_vars

\* a reported (Relaxed) state mismatch followed by the resync, the local
\* control field having been advanced by a spawn before
C2_Witness ==
    /\ call.phase = "Check"
    /\ result = "Ok"
    /\ call.state_level = "Relaxed"
    /\ Has(printed, "State mismatch")
    /\ \E i \in 1..Len(printed) :
          /\ printed[i].text = "{:?}"
          /\ printed[i].args[1].next_task = 1
    /\ state = call.get_state.val

\* C3: the phase at construction is Init; a successful step() moves the
\* phase marker along Init -> Command -> Check -> Command -> ... by exactly
\* one transition, and Init is never entered again.
C3_PhaseCycle ==
    /\ step = "Init"
    /\ [][ /\ result' = "Ok" =>
                \/ step = "Init" /\ step' = "Command"
                \/ step = "Command" /\ step' = "Check"
                \/ step = "Check" /\ step' = "Command"
           /\ step' = "Init" => (step = "Init" /\ result' # "Ok") ]_vars

\* the second round's Check has succeeded: the cycle was walked twice
C3_Witness ==
    /\ call.phase = "Check"
    /\ result = "Ok"
    /\ step = "Command"
    /\ round = 2
    /\ issued = 2

\* C4 as stated: the round counter is advanced (a Command phase begins)
\* only when the step() call before it ran a Check phase, or the Init phase
\* for the first round.
C4_RoundsSequential ==
    [][round' # round => call.phase \in {"Init", "Check"}]_vars

\* C5: a step() that returns an error leaves the phase marker at the phase
\* it was called in, and each phase fails only with its own errors.
C5_FailedStepKeepsPhase ==
    /\ Failed => step = call.phase
    /\ (Failed /\ call.phase = "Init") => result = "StateParseError"
    /\ (Failed /\ call.phase = "Command") => result \in {"CommandNotFound", "SendError"}
    /\ (Failed /\ call.phase = "Check") =>
          result \in {"ReturnValueMismatch", "StateMismatch", "StateParseError"}

\* the Command phase failed twice in a row: the second call re-executed it
C5_Witness ==
    /\ result = "CommandNotFound"
    /\ step = "Command"
    /\ round = 2
    /\ issued = 0

\* C6 as stated: the round counter equals the number of commands obtained
\* from the Commander and applied to the local state.
C6_RoundCountsCommands == round = issued

\* C7 as stated: in every divergence report the value under "Expected" is
\* the local one and the value under "Got" is the Test Port's.
C7_ExpectedIsLocal ==
    [][step = "Check" =>
          \A i \in 1..Len(printed') :
              /\ printed'[i].text = "Expected: {}, Got: {}" =>
                    printed'[i].args = <<retv, call'.test_retv>>
              /\ printed'[i].text = "Expected:" =>
                    printed'[i + 1].args = <<state>>
              /\ printed'[i].text = "Got:" =>
                    printed'[i + 1].args = <<call'.get_state.val>>]_vars

\* ============================================= properties of SpecMatch
\* y is x reordered and then renamed by an injective renaming of the values
RenamedPermutation(x, y) ==
    /\ Len(x) = Len(y)
    /\ \E f \in [Vals -> Vals] :
          /\ \A u, v \in Vals : f[u] = f[v] => u = v
          /\ \E p \in [1..Len(x) -> 1..Len(x)] :
                /\ \A i, j \in 1..Len(x) : p[i] = p[j] => i = j
                /\ \A i \in 1..Len(x) : y[i] = f[x[p[i]]]

\* C8 as stated: IdentSet(s) matches every injective renaming of every
\* permutation of s.
C8_IdentSetOrderInvariant ==
    (res.kind = "IdentSet" /\ RenamedPermutation(a, b)) => res.val

\* C9 as stated: for every wrapper kind a value matches a structurally
\* identical copy of itself, empty collections included.
C9_Reflexive ==
    (res.kind # "none" /\ a = b) => res.val

\* the same repetition pattern by position
SamePattern(x, y) ==
    /\ Len(x) = Len(y)
    /\ \A i, j \in 1..Len(x) : (x[i] = x[j]) <=> (y[i] = y[j])

\* C10: IdentList(a).matches(IdentList(b)) is true exactly when a and b
\* have the same length and the same repetition pattern by position.
C10_IdentListPattern ==
    res.kind = "IdentList" => (res.val <=> SamePattern(a, b))

\* the spec's example in small values: renamed, with the same pattern, the
\* order of the names reversed
C10_Witness ==
    /\ res.kind = "IdentList"
    /\ a = <<1, 1, 2>>
    /\ b = <<2, 2, 0>>
    /\ res.val

\* number of positions of x holding v
Count(x, v) == Cardinality({k \in 1..Len(x) : x[k] = v})

SameMultiset(x, y) ==
    /\ Len(x) = Len(y)
    /\ \A v \in Vals : Count(x, v) = Count(y, v)

\* C11 as stated: ValueSet(a).matches(ValueSet(b)) is true exactly when a
\* and b hold the same values with the same multiplicities.
C11_ValueSetMultiset ==
    res.kind = "ValueSet" => (res.val <=> SameMultiset(a, b))

CollectionKinds == {"ValueList", "ValueSet", "IdentList", "IdentSet"}

\* C12: for every collection wrapper kind, contents of different lengths
\* never match.
C12_LengthMismatch ==
    (res.kind \in CollectionKinds /\ Len(a) # Len(b)) => ~res.val

\* a vector against a proper prefix of itself
C12_Witness ==
    /\ res.kind = "ValueList"
    /\ a = <<1, 2>>
    /\ b = <<1, 2, 0>>
    /\ ~res.val

RECURSIVE MaxLabel(_, _)
MaxLabel(r, n) ==
    IF n = 0 THEN -1
    ELSE LET m == MaxLabel(r, n - 1) IN IF r[n] > m THEN r[n] ELSE m

\* C16: the relabeling r of a has the length of a, repeats exactly where a
\* repeats, starts at 0, never skips a label (each label is at most one more
\* than the largest before it), and relabeling r again returns r.
C16_CanonicalRelabeling ==
    res.kind = "map_ident" =>
        LET r == res.mapped
        IN /\ Len(r) = Len(a)
           /\ \A i, j \in 1..Len(a) : (r[i] = r[j]) <=> (a[i] = a[j])
           /\ Len(a) > 0 => r[1] = 0
           /\ \A i \in 1..Len(r) : r[i] >= 0 /\ r[i] <= MaxLabel(r, i - 1) + 1
           /\ map_ident(r) = r

\* values met in descending order are labelled in order of appearance
C16_Witness ==
    /\ res.kind = "map_ident"
    /\ a = <<2, 0, 2>>
    /\ res.mapped = <<0, 1, 0>>

\* self.matches(other) of the wrapper kind
Matches(kind, x, y) ==
    CASE kind = "Unmatched" -> UnmatchedMatches(x[1], y[1])
      [] kind = "Value" -> ValueMatches(x[1], y[1])
      [] kind = "Ident" -> IdentMatches(x[1], y[1])
      [] kind = "ValueList" -> ValueListMatches(x, y)
      [] kind = "ValueSet" -> ValueSetMatches(x, y)
      [] kind = "IdentList" -> IdentListMatches(x, y)
      [] kind = "IdentSet" -> IdentSetMatches(x, y)

WrapperKinds ==
    {"Unmatched", "Value", "Ident", "ValueList", "ValueSet", "IdentList", "IdentSet"}

\* C19: for every wrapper kind, a.matches(b) = b.matches(a).
C19_Symmetric ==
    res.kind \in WrapperKinds => (res.val = Matches(res.kind, b, a))

\* a pair on which "every element of the first is in the second" would
\* depend on the direction
C19_Witness ==
    /\ res.kind = "ValueSet"
    /\ a = <<1, 1>>
    /\ b = <<1, 2>>
    /\ res.val

\* ======================================== further properties of Spec
\* C17: a step() that fails in the Check phase leaves the local state either
\* exactly as it was or exactly the state retrieved from the Test Port, and
\* leaves the recorded return code as it was.
C17_FailedCheckState ==
    [][(step = "Check" /\ result' # "Ok") =>
          /\ \/ state' = state
             \/ /\ call'.get_state.called
                /\ call'.get_state.ok
                /\ state' = call'.get_state.val
          /\ retv' = retv
          /\ result' \in {"ReturnValueMismatch", "StateMismatch", "StateParseError"}]_vars

\* a Strict state mismatch after a spawn: the old local state is kept, with
\* the task list and the control field the spawn gave it
C17_Witness ==
    /\ call.phase = "Check"
    /\ result = "StateMismatch"
    /\ state = [tasks |-> <<0>>, next_task |-> 1]
    /\ call.get_state.val = [tasks |-> <<>>, next_task |-> 0]

\* C18: a successful Init step leaves the local state equal to the state the
\* Test Port reported, the phase Command and the round counter 0; when the
\* Test Port fails to deliver the state the step fails, the placeholder is
\* kept, nothing is printed and the phase stays Init.
C18_InitAdoptsRemote ==
    [][step = "Init" =>
          IF call'.get_state.ok
          THEN /\ result' = "Ok"
               /\ state' = call'.get_state.val
               /\ step' = "Command"
               /\ round' = 0
               /\ Has(printed', "[ Initial State ]")
          ELSE /\ result' = "StateParseError"
               /\ state' = state
               /\ printed' = <<>>
               /\ step' = "Init"
               /\ round' = 0]_vars

\* Init succeeded with a reported state of one task
C18_Witness ==
    /\ call.phase = "Init"
    /\ result = "Ok"
    /\ step = "Command"
    /\ round = 0
    /\ state = [tasks |-> <<1>>, next_task |-> 0]
    /\ call.get_state.val = state

\* C20: under a Strict return-code level a return code mismatch fails the
\* step with return-value-mismatch before get_state is called: no state
\* report, no resync, whatever the state level; and a state-mismatch error
\* is returned only when the return-code check passed or was not Strict.
C20_RetvBeforeState ==
    [][step = "Check" =>
          LET strict_retv_bad ==
                  call'.retv_level = "Strict" /\ call'.test_retv # retv
          IN /\ strict_retv_bad =>
                  /\ result' = "ReturnValueMismatch"
                  /\ ~call'.get_state.called
                  /\ ~Has(printed', "State mismatch")
                  /\ ~Has(printed', "Expected:")
                  /\ ~Has(printed', "Got:")
                  /\ state' = state
                  /\ step' = "Check"
             /\ result' = "StateMismatch" => ~strict_retv_bad
             /\ result' = "ReturnValueMismatch" => strict_retv_bad]_vars

\* a Strict return code mismatch under a Strict state level, the local
\* state being one the Test Port's state could not match
C20_Witness ==
    /\ call.phase = "Check"
    /\ call.retv_level = "Strict"
    /\ call.state_level = "Strict"
    /\ result = "ReturnValueMismatch"
    /\ ~call.get_state.called
    /\ Len(printed) = 2
    /\ state.tasks = <<0>>

\* ================================================ properties of SpecSync
\* C14 as stated: no command is applied to the local state without being
\* forwarded to the Test Port, and whenever the Runner is in the Check phase
\* exactly one command has been applied since the last resync, the one that
\* was forwarded.
C14_NoDesync ==
    /\ since_sync.forwarded = since_sync.applied
    /\ step = "Check" => Len(since_sync.applied) = 1

\* ================================================= properties of SpecRun
\* C13: in the scripted lockstep run under Strict/Strict no step() returns
\* an error, and at every Check the local and the remote task list are
\* relabeling-equivalent.
C13_LockstepRun ==
    /\ ~Failed
    /\ step = "Check" => IdentListMatches(remote.tasks, state.tasks)

\* the Check of round 14, whose command was a spawn, is due: the local list
\* ends in a task id the remote list does not hold
C13_Witness ==
    /\ step = "Check"
    /\ round = 14
    /\ call.command = "spawn"
    /\ Len(state.tasks) = 3
    /\ state.tasks # remote.tasks
    /\ result = "Ok"

====
